---------------------------- MODULE Spec2Model ----------------------------
(***************************************************************************)
(* Dense Cholesky factorization variants and the rank-one update/downdate  *)
(* routines of python/scripts/cholesky.py.                                 *)
(*                                                                         *)
(* Numbers.  The routines start from integer data and use only + - * /     *)
(* and sqrt, so every value they produce is of the form (p/q)*sqrt(r)      *)
(* with p an integer, q a positive integer and r a squarefree positive     *)
(* integer.  A number is the record [p, q, r] in lowest terms; arithmetic  *)
(* on it is exact.  q = 0 marks the values that are not finite reals:      *)
(* NaN, +inf, -inf (numpy's results for sqrt of a negative number and for  *)
(* division by zero), and Surd, a sum or root that leaves the              *)
(* representation.  Arrays are sequences, indexed from 1: the source's     *)
(* index k is k+1 here.                                                    *)
(***************************************************************************)
EXTENDS Integers, Sequences, FiniteSets, TLC

(***************************************************************************)
(* Bounds of the model.                                                    *)
(***************************************************************************)
MaxN == 3

MaxCalls == 2

\* the entries test matrices and vectors are built from
DiagBases == {1, 4}

FactorDiagBases == {1, 2}

OffVals == {-1, 0, 2}

WVals == {-1, 0, 1}

(***************************************************************************)
(* Exact arithmetic on (p/q)*sqrt(r).                                      *)
(***************************************************************************)
Abs(x) == IF x < 0 THEN -x ELSE x

Sgn(x) == IF x < 0 THEN -1 ELSE IF x > 0 THEN 1 ELSE 0

RECURSIVE Gcd(_, _)
Gcd(a, b) == IF b = 0 THEN a ELSE Gcd(b, a % b)

\* the largest m with m*m dividing n, for n > 0 with no prime factor below k
RECURSIVE SquarePart(_, _)
SquarePart(n, k) ==
    IF k * k > n THEN 1
    ELSE IF n % (k * k) = 0 THEN k * SquarePart(n \div (k * k), k)
    ELSE IF n % k = 0 THEN SquarePart(n \div k, k + 1)
    ELSE SquarePart(n, k + 1)

Zero == [p |-> 0, q |-> 1, r |-> 1]
NaN  == [p |-> 0, q |-> 0, r |-> 1]
PInf == [p |-> 1, q |-> 0, r |-> 1]
NInf == [p |-> -1, q |-> 0, r |-> 1]
Surd == [p |-> 0, q |-> 0, r |-> 0]

IsFinite(x) == x.q # 0

\* (p/q)*sqrt(r) in lowest terms, for q > 0 and r squarefree
Mk(p, q, r) ==
    IF p = 0 THEN Zero
    ELSE LET g == Gcd(Abs(p), q)
         IN  [p |-> p \div g, q |-> q \div g, r |-> r]

Int2Num(i) == [p |-> i, q |-> 1, r |-> 1]

One == Int2Num(1)

Neg(x) == IF x = NaN \/ x = Surd THEN x ELSE [x EXCEPT !.p = -x.p]

\* the sign of x: -1, 0 or 1 (NaN and Surd have none and give 0)
Sign(x) == Sgn(x.p)

\* (a*c*g / (b*d)) * sqrt(r), the common factors taken out before the
\* products are formed: of g and d,
MulCancelD(a, b, c, d, g, r) ==
    LET h == Gcd(g, d)
    IN  Mk(a * c * (g \div h), b * (d \div h), r)

\* of g and b,
MulCancelB(a, b, c, d, g, r) ==
    LET h == Gcd(g, b)
    IN  MulCancelD(a, b \div h, c, d, g \div h, r)

\* of a and d, and of c and b
MulCross(a, b, c, d, g, r) ==
    LET g1 == Gcd(Abs(a), d)
        g2 == Gcd(Abs(c), b)
    IN  MulCancelB(a \div g1, b \div g2, c \div g2, d \div g1, g, r)

\* finite x and y, g the common factor of their radicands:
\* sqrt(x.r) * sqrt(y.r) = g * sqrt((x.r / g) * (y.r / g))
MulRadicands(x, y, g) ==
    MulCross(x.p, x.q, y.p, y.q, g, (x.r \div g) * (y.r \div g))

Mul(x, y) ==
    IF x = Surd \/ y = Surd THEN Surd
    ELSE IF x = NaN \/ y = NaN THEN NaN
    ELSE IF ~IsFinite(x) \/ ~IsFinite(y)
         THEN IF x.p * y.p = 0 THEN NaN
              ELSE IF Sgn(x.p) * Sgn(y.p) > 0 THEN PInf ELSE NInf
    ELSE MulRadicands(x, y, Gcd(x.r, y.r))

\* 1/x for finite nonzero x
Inv(x) ==
    LET g == Gcd(x.q, x.r)
    IN  Mk(Sgn(x.p) * (x.q \div g), Abs(x.p) * (x.r \div g), x.r)

Div(x, y) ==
    IF x = Surd \/ y = Surd THEN Surd
    ELSE IF x = NaN \/ y = NaN THEN NaN
    ELSE IF ~IsFinite(y) THEN (IF IsFinite(x) THEN Zero ELSE NaN)
    ELSE IF ~IsFinite(x) THEN (IF (y.p < 0) = (x = NInf) THEN PInf ELSE NInf)
    ELSE IF y.p = 0 THEN (IF x.p = 0 THEN NaN
                          ELSE IF x.p > 0 THEN PInf ELSE NInf)
    ELSE Mul(x, Inv(y))

Add(x, y) ==
    IF x = Surd \/ y = Surd THEN Surd
    ELSE IF x = NaN \/ y = NaN THEN NaN
    ELSE IF ~IsFinite(x)
         THEN (IF ~IsFinite(y) /\ y # x THEN NaN ELSE x)
    ELSE IF ~IsFinite(y) THEN y
    ELSE IF x.p = 0 THEN y
    ELSE IF y.p = 0 THEN x
    ELSE IF x.r # y.r THEN Surd
    ELSE LET g == Gcd(x.q, y.q)
         IN  Mk(x.p * (y.q \div g) + y.p * (x.q \div g),
                (x.q \div g) * y.q, x.r)

Sub(x, y) == Add(x, Neg(y))

Sqrt(x) ==
    IF x = Surd THEN Surd
    ELSE IF x = NaN \/ x = NInf THEN NaN
    ELSE IF x = PInf THEN PInf
    ELSE IF x.p < 0 THEN NaN
    ELSE IF x.p = 0 THEN Zero
    ELSE IF x.r # 1 THEN Surd
    ELSE LET mp == SquarePart(x.p, 2)
             mq == SquarePart(x.q, 2)
             rp == x.p \div (mp * mp)
             rq == x.q \div (mq * mq)
         IN  Mk(mp, mq * rq, rp * rq)

\* d >= 0 for a difference d
NonNegative(d) == d # Surd /\ Sign(d) >= 0

\* x >= y as numpy compares: False when either side is NaN
Geq(x, y) ==
    IF x = NaN \/ y = NaN \/ x = Surd \/ y = Surd THEN FALSE
    ELSE IF x = y THEN TRUE
    ELSE IF x = PInf \/ y = NInf THEN TRUE
    ELSE IF x = NInf \/ y = PInf THEN FALSE
    ELSE NonNegative(Sub(x, y))

\* truth value of a number, as np.argwhere tests it: nonzero (NaN is nonzero)
Nonzero(x) == x # Zero

(***************************************************************************)
(* Arrays.  A vector is a sequence of numbers, a matrix a sequence of rows.*)
(***************************************************************************)
\* a vector / a matrix built by a constructor, as a sequence value
Vec(f) == f \o <<>>

Mat(F) == [i \in 1..Len(F \o <<>>) |-> F[i] \o <<>>] \o <<>>

\* np.zeros((n, m))
Zeros(n, m) == Mat([i \in 1..n |-> [j \in 1..m |-> Zero]])

\* u @ v for two vectors of one length, accumulated left to right
RECURSIVE DotTo(_, _, _)
DotTo(u, v, n) ==
    IF n = 0 THEN Zero ELSE Add(DotTo(u, v, n - 1), Mul(u[n], v[n]))

Dot(u, v) == DotTo(u, v, Len(u))

\* M.T
Transpose(M) ==
    IF Len(M) = 0 THEN <<>>
    ELSE Mat([j \in 1..Len(M[1]) |-> [i \in 1..Len(M) |-> M[i][j]]])

\* M @ M.T
MMT(M) == Mat([i \in 1..Len(M) |-> [j \in 1..Len(M) |-> Dot(M[i], M[j])]])

\* np.outer(w, w)
Outer(w) == Mat([i \in 1..Len(w) |-> [j \in 1..Len(w) |-> Mul(w[i], w[j])]])

MatAdd(X, Y) ==
    Mat([i \in 1..Len(X) |-> [j \in 1..Len(X[i]) |-> Add(X[i][j], Y[i][j])]])

MatSub(X, Y) ==
    Mat([i \in 1..Len(X) |-> [j \in 1..Len(X[i]) |-> Sub(X[i][j], Y[i][j])]])

\* every entry of the matrix is a finite real
AllFinite(M) ==
    \A i \in 1..Len(M) : \A j \in 1..Len(M[i]) :
        IsFinite(M[i][j])

\* L[k, :k] of the source: the first n entries of a row
Head_(row, n) == SubSeq(row, 1, n)

\* Oriented without the transposition
OrientedAlwaysLower(L, lower) == L

\* what "return L if lower else L.T" hands back
Oriented(L, lower) == IF lower THEN L ELSE Transpose(L)

Ok(L) == [status |-> "ok", L |-> L]

Raise(kind) == [status |-> kind, L |-> <<>>]

\* what a factorization call leaves: its outcome r and the caller's array,
\* passed as A, holding Aarg
Kept(r, Aarg) == [status |-> r.status, L |-> r.L, argA |-> Aarg]

(***************************************************************************)
(* scipy.linalg.solve on a lower-triangular system: with T nonsingular the *)
(* solution is the one forward substitution finds.  It refuses input that  *)
(* holds a NaN or an infinity, and a singular T.                           *)
(***************************************************************************)
RECURSIVE ForwardSub(_, _, _)
ForwardSub(T, b, n) ==
    IF n = 0 THEN <<>>
    ELSE LET x == ForwardSub(T, b, n - 1)
         IN  Append(x, Div(Sub(b[n], Dot(Head_(T[n], n - 1), x)), T[n][n]))

la_solve(T, b) ==
    IF ~AllFinite(T) \/ \E i \in 1..Len(b) : ~IsFinite(b[i])
    THEN [status |-> "ValueError", x |-> <<>>]
    ELSE IF \E i \in 1..Len(T) : T[i][i] = Zero
    THEN [status |-> "LinAlgError", x |-> <<>>]
    ELSE [status |-> "ok", x |-> ForwardSub(T, b, Len(b))]

(***************************************************************************)
(* chol_up: row k of L from a triangular solve against the leading block.  *)
(***************************************************************************)
\* one pass of the loop body, for the source's k = km - 1
chol_up_step(A, L, km) ==
    LET N == Len(A)
        T == Vec([i \in 1..(km - 1) |-> Head_(L[i], km - 1)])
        b == Vec([i \in 1..(km - 1) |-> A[i][km]])
        sol == la_solve(T, b)
        x == sol.x
        d == Sqrt(Sub(A[km][km], Dot(x, x)))
    IN  IF sol.status # "ok" THEN Raise(sol.status)
        ELSE Ok([L EXCEPT ![km] =
                    Vec([j \in 1..N |-> IF j < km THEN x[j]
                                    ELSE IF j = km THEN d ELSE L[km][j]])])

RECURSIVE chol_up_loop(_, _, _)
chol_up_loop(A, L, km) ==
    IF km > Len(A) THEN Ok(L)
    ELSE LET r == chol_up_step(A, L, km)
         IN  IF r.status # "ok" THEN r ELSE chol_up_loop(A, r.L, km + 1)

chol_up(A, lower) ==
    LET r == chol_up_loop(A, Zeros(Len(A), Len(A)), 1)
    IN  Kept(IF r.status # "ok" THEN r ELSE Ok(Oriented(r.L, lower)), A)

(***************************************************************************)
(* chol_left: column k of L from all the columns left of it.               *)
(***************************************************************************)
chol_left_step(A, L, km) ==
    LET N == Len(A)
        rowk == Head_(L[km], km - 1)
        d == Sqrt(Sub(A[km][km], Dot(rowk, rowk)))
    IN  Mat([i \in 1..N |-> [j \in 1..N |->
            IF j # km \/ i < km THEN L[i][j]
            ELSE IF i = km THEN d
            ELSE Div(Sub(A[i][km], Dot(Head_(L[i], km - 1), rowk)), d)]])

RECURSIVE chol_left_loop(_, _, _)
chol_left_loop(A, L, km) ==
    IF km > Len(A) THEN L
    ELSE chol_left_loop(A, chol_left_step(A, L, km), km + 1)

chol_left(A, lower) ==
    Kept(Ok(Oriented(chol_left_loop(A, Zeros(Len(A), Len(A)), 1), lower)), A)

(***************************************************************************)
(* chol_left_amp: as chol_left, accumulating over the nonzeros of row k.   *)
(***************************************************************************)
\* argwhere that misses the first column
argwhere_skip_first(row) == {j \in 2..Len(row) : Nonzero(row[j])}

\* np.argwhere(L[k]).flat: the columns of the row that hold a nonzero
argwhere(row) == {j \in 1..Len(row) : Nonzero(row[j])}

\* the inner loop, over the columns jm..N in increasing order
RECURSIVE amp_accumulate(_, _, _, _, _)
amp_accumulate(L, a, km, js, jm) ==
    IF jm > Len(L) THEN a
    ELSE IF jm \notin js THEN amp_accumulate(L, a, km, js, jm + 1)
    ELSE amp_accumulate(L,
             Vec([i \in 1..Len(a) |->
                 IF i < km THEN a[i]
                 ELSE Sub(a[i], Mul(L[i][jm], L[km][jm]))]),
             km, js, jm + 1)

\* one pass of the outer loop: the new L and the new work vector a
chol_left_amp_step(A, L, a, km) ==
    LET N == Len(A)
        a0 == Vec([i \in 1..N |-> IF i < km THEN a[i] ELSE A[i][km]])
        a1 == amp_accumulate(L, a0, km, argwhere(L[km]), 1)
        d == Sqrt(a1[km])
    IN  [L |-> Mat([i \in 1..N |-> [j \in 1..N |->
                   IF j # km \/ i < km THEN L[i][j]
                   ELSE IF i = km THEN d
                   ELSE Div(a1[i], d)]]),
         a |-> a1]

\* the passes km..last of the outer loop
RECURSIVE chol_left_amp_loop(_, _, _, _, _)
chol_left_amp_loop(A, L, a, km, last) ==
    IF km > last THEN L
    ELSE LET r == chol_left_amp_step(A, L, a, km)
         IN  chol_left_amp_loop(A, r.L, r.a, km + 1, last)

chol_left_amp(A, lower) ==
    LET N == Len(A)
    IN  Kept(Ok(Oriented(chol_left_amp_loop(A, Zeros(N, N),
                                            Vec([i \in 1..N |-> Zero]),
                                            1, N),
                         lower)),
             A)

(***************************************************************************)
(* chol_right: eliminates on the working copy W of A.                      *)
(***************************************************************************)
\* one pass of the loop: the new L and the new working matrix
chol_right_step(W, L, km) ==
    LET N == Len(W)
        d == Sqrt(W[km][km])
        L1 == Mat([i \in 1..N |-> [j \in 1..N |->
                  IF j # km \/ i < km THEN L[i][j]
                  ELSE IF i = km THEN d
                  ELSE Div(W[i][km], d)]])
    IN  [L |-> L1,
         W |-> Mat([i \in 1..N |-> [j \in 1..N |->
                  IF i > km /\ j > km
                  THEN Sub(W[i][j], Mul(L1[i][km], L1[j][km]))
                  ELSE W[i][j]]])]

\* the passes km.. of the loop: the final L and working matrix
RECURSIVE chol_right_loop(_, _, _)
chol_right_loop(W, L, km) ==
    IF km > Len(W) THEN [L |-> L, W |-> W]
    ELSE LET r == chol_right_step(W, L, km)
         IN  chol_right_loop(r.W, r.L, km + 1)

\* chol_right eliminating on the caller's array
chol_right_in_place(A, lower) ==
    LET r == chol_right_loop(A, Zeros(Len(A), Len(A)), 1)
    IN  Kept(Ok(Oriented(r.L, lower)), r.W)

\* the loop works on the copy made at line 176
chol_right(A, lower) ==
    Kept(Ok(Oriented(chol_right_loop(A, Zeros(Len(A), Len(A)), 1).L, lower)),
         A)

(***************************************************************************)
(* chol_super: blocks of columns.  scipy.linalg.cholesky(M) returns the    *)
(* upper factor U of M (U.T @ U = M), read from M's upper triangle; it     *)
(* refuses non-finite input and a matrix that is not positive definite.    *)
(***************************************************************************)
\* U[1..n, j] @ U[1..n, i]
ColDot(U, j, i, n) ==
    Dot(Vec([l \in 1..n |-> U[l][j]]), Vec([l \in 1..n |-> U[l][i]]))

\* rows jm.. of the upper factor, given the rows above
RECURSIVE potrf_upper(_, _, _)
potrf_upper(M, U, jm) ==
    IF jm > Len(M) THEN Ok(U)
    ELSE LET n == Len(M)
             rad == Sub(M[jm][jm], ColDot(U, jm, jm, jm - 1))
             d == Sqrt(rad)
         IN  IF Sign(rad) <= 0 THEN Raise("LinAlgError")
             ELSE potrf_upper(M,
                      [U EXCEPT ![jm] = Vec([i \in 1..n |->
                          IF i < jm THEN Zero
                          ELSE IF i = jm THEN d
                          ELSE Div(Sub(M[jm][i], ColDot(U, jm, i, jm - 1)),
                                   d)])],
                      jm + 1)

la_cholesky(M) ==
    IF ~AllFinite(M) THEN Raise("ValueError")
    ELSE potrf_upper(M, Zeros(Len(M), Len(M)), 1)

\* X / D of numpy for X of shape (m, bs) and D of shape (bs, bs):
\* elementwise, a dimension of extent 1 stretched to the other's extent
BroadcastDiv(X, m, D, bs) ==
    IF m = bs
    THEN [status |-> "ok", rows |-> m,
          Q |-> Mat([i \in 1..m |-> [b \in 1..bs |-> Div(X[i][b], D[i][b])]])]
    ELSE IF m = 1
    THEN [status |-> "ok", rows |-> bs,
          Q |-> Mat([i \in 1..bs |-> [b \in 1..bs |-> Div(X[1][b], D[i][b])]])]
    ELSE IF bs = 1
    THEN [status |-> "ok", rows |-> m,
          Q |-> Mat([i \in 1..m |-> [b \in 1..bs |-> Div(X[i][b], D[1][b])]])]
    ELSE [status |-> "ValueError", rows |-> 0, Q |-> <<>>]

\* np.cumsum(np.r_[0, s]): ss[j] is the sum of the first j - 1 entries of s
RECURSIVE SumTo(_, _)
SumTo(s, n) == IF n = 0 THEN 0 ELSE SumTo(s, n - 1) + s[n]

cumsum0(s) == Vec([j \in 1..(Len(s) + 1) |-> SumTo(s, j - 1)])

\* line 151, right-hand side: A[k, k] - L[k, :k1] @ L[k, :k1].T
super_diag_block(A, L, k1, k2) ==
    Mat([a \in 1..(k2 - k1) |-> [b \in 1..(k2 - k1) |->
        Sub(A[k1 + a][k1 + b],
            Dot(Head_(L[k1 + a], k1), Head_(L[k1 + b], k1)))]])

\* line 151, assignment: L[k, k] = U.T
super_set_diag(L, U, k1, k2) ==
    Mat([i \in 1..Len(L) |-> [j \in 1..Len(L) |->
        IF i > k1 /\ i <= k2 /\ j > k1 /\ j <= k2
        THEN U[j - k1][i - k1] ELSE L[i][j]]])

\* line 152, numerator: A[k2:, k] - L[k2:, :k1] @ L[k, :k1].T
super_below_block(A, L, k1, k2) ==
    Mat([i \in 1..(Len(A) - k2) |-> [b \in 1..(k2 - k1) |->
        Sub(A[k2 + i][k1 + b],
            Dot(Head_(L[k2 + i], k1), Head_(L[k1 + b], k1)))]])

\* line 152, divisor: L[k, k].T
super_divisor(L, k1, k2) ==
    Mat([a \in 1..(k2 - k1) |-> [b \in 1..(k2 - k1) |-> L[k1 + b][k1 + a]]])

\* line 152, assignment of the quotient q to L[k2:, k]: its shape must be
\* that of the target, or have one row
super_set_below(L, q, k1, k2) ==
    LET m == Len(L) - k2
    IN  IF q.status # "ok" THEN Raise(q.status)
        ELSE IF q.rows # m /\ q.rows # 1 THEN Raise("ValueError")
        ELSE Ok(Mat([i \in 1..Len(L) |-> [j \in 1..Len(L) |->
                IF i > k2 /\ j > k1 /\ j <= k2
                THEN q.Q[IF q.rows = m THEN i - k2 ELSE 1][j - k1]
                ELSE L[i][j]]]))

\* line 152 on the L that line 151 left
super_below(A, L, k1, k2) ==
    super_set_below(L,
        BroadcastDiv(super_below_block(A, L, k1, k2), Len(A) - k2,
                     super_divisor(L, k1, k2), k2 - k1),
        k1, k2)

\* lines 151-152 given the factor c of the diagonal block
super_with_diag(A, L, c, k1, k2) ==
    IF c.status # "ok" THEN Raise(c.status)
    ELSE super_below(A, super_set_diag(L, c.L, k1, k2), k1, k2)

\* one pass of the loop, for the block of columns k1+1..k2
chol_super_step(A, L, k1, k2) ==
    super_with_diag(A, L, la_cholesky(super_diag_block(A, L, k1, k2)),
                    k1, k2)

RECURSIVE chol_super_loop(_, _, _, _)
chol_super_loop(A, L, ss, jm) ==
    IF jm >= Len(ss) THEN Ok(L)
    ELSE LET r == chol_super_step(A, L, ss[jm], ss[jm + 1])
         IN  IF r.status # "ok" THEN r
             ELSE chol_super_loop(A, r.L, ss, jm + 1)

\* chol_super without the second assertion
chol_super_sum_only(A, s, lower) ==
    LET N == Len(A)
        r == chol_super_loop(A, Zeros(N, N), cumsum0(s), 1)
    IN  Kept(IF SumTo(s, Len(s)) # N THEN Raise("AssertionError")
             ELSE IF r.status # "ok" THEN r
             ELSE Ok(Oriented(r.L, lower)),
             A)

chol_super(A, s, lower) ==
    LET N == Len(A)
        r == chol_super_loop(A, Zeros(N, N), cumsum0(s), 1)
    IN  Kept(IF SumTo(s, Len(s)) # N THEN Raise("AssertionError")
             ELSE IF \E j \in 1..Len(s) : s[j] <= 0
             THEN Raise("AssertionError")
             ELSE IF r.status # "ok" THEN r
             ELSE Ok(Oriented(r.L, lower)),
             A)

(***************************************************************************)
(* Rank-one update and downdate.  Each routine works on the private copies *)
(* it makes of L and w; a call's result records the returned pair, the     *)
(* column at which it raised (0 if it did not), the running beta after     *)
(* each column, and the caller's two arrays as the call leaves them.       *)
(***************************************************************************)
Sq(x) == Mul(x, x)

\* the state of a loop: working arrays, running beta, outcome so far
Loop(status, L, w, beta, col, betas) ==
    [status |-> status, L |-> L, w |-> w, beta |-> beta, col |-> col,
     betas |-> betas]

\* the state of a loop in state r after a pass that left n
Advance(r, n) == Loop("ok", n.L, n.w, n.beta, 0, Append(r.betas, n.beta))

\* the result of a call whose loop ended in state r, on arguments Larg, warg
Returned(r, Larg, warg) ==
    [status |-> r.status,
     L |-> IF r.status = "ok" THEN r.L ELSE <<>>,
     w |-> IF r.status = "ok" THEN r.w ELSE <<>>,
     col |-> r.col, betas |-> r.betas, argL |-> Larg, argw |-> warg]

\* numpy's shape rules on vectors.  x -= y for x of length a and y of length
\* b: y is stretched to x's length, x never is
InPlaceFits(a, b) == a = b \/ b = 1

\* the length of x + y for lengths a and b, -1 when they do not broadcast
BroadcastLen(a, b) ==
    IF a = b THEN a ELSE IF a = 1 THEN b ELSE IF b = 1 THEN a ELSE -1

\* x[...] = y for a target of length b and a value of length c
AssignFits(b, c) == c = b \/ c = 1

\* what the shapes make of pass jm of a loop over the N columns of L with
\* a w of length M: w[j] needs j < M; the two statements on the suffixes
\* w[j+1:] (length M - jm) and L[j+1:, j] (length N - jm) need them to fit;
\* brk tells that the loop leaves before them in its last pass
shape_status(N, M, jm, brk) ==
    IF jm > M THEN "IndexError"
    ELSE IF brk /\ jm = N THEN "ok"
    ELSE IF ~InPlaceFits(M - jm, N - jm) THEN "ValueError"
    ELSE IF ~AssignFits(N - jm, BroadcastLen(N - jm, M - jm))
    THEN "ValueError"
    ELSE "ok"

\* chol_update_step with the column suffix taken from the w already updated
chol_update_step_new_w(L, w, beta, jm) ==
    LET N == Len(L)
        alpha == Div(w[jm], L[jm][jm])
        beta2 == Sqrt(Add(Sq(beta), Sq(alpha)))
        gamma == Div(alpha, Mul(beta2, beta))
        delta == Div(beta, beta2)
        Ld == [L EXCEPT ![jm][jm] =
                  Add(Mul(delta, L[jm][jm]), Mul(gamma, w[jm]))]
        wa == [w EXCEPT ![jm] = alpha]
        wb == Vec([i \in 1..Len(wa) |->
                  IF i > jm THEN Sub(wa[i], Mul(alpha, Ld[i][jm]))
                  ELSE wa[i]])
        Ls == Mat([i \in 1..N |-> [j \in 1..N |->
                  IF j = jm /\ i > jm
                  THEN Add(Mul(delta, Ld[i][jm]), Mul(gamma, wb[i]))
                  ELSE Ld[i][j]]])
    IN  IF jm = N THEN [L |-> Ld, w |-> wa, beta |-> beta2]
        ELSE [L |-> Ls, w |-> wb, beta |-> beta2]

\* chol_update_step without the assignment w[j] = alpha
chol_update_step_keep_wj(L, w, beta, jm) ==
    LET N == Len(L)
        alpha == Div(w[jm], L[jm][jm])
        beta2 == Sqrt(Add(Sq(beta), Sq(alpha)))
        gamma == Div(alpha, Mul(beta2, beta))
        delta == Div(beta, beta2)
        Ld == [L EXCEPT ![jm][jm] =
                  Add(Mul(delta, L[jm][jm]), Mul(gamma, w[jm]))]
        wb == Vec([i \in 1..Len(w) |->
                  IF i > jm THEN Sub(w[i], Mul(alpha, Ld[i][jm]))
                  ELSE w[i]])
        Ls == Mat([i \in 1..N |-> [j \in 1..N |->
                  IF j = jm /\ i > jm
                  THEN Add(Mul(delta, Ld[i][jm]), Mul(gamma, w[i]))
                  ELSE Ld[i][j]]])
    IN  IF jm = N THEN [L |-> Ld, w |-> w, beta |-> beta2]
        ELSE [L |-> Ls, w |-> wb, beta |-> beta2]

\* one pass of chol_update's loop, for the source's j = jm - 1
chol_update_step(L, w, beta, jm) ==
    LET N == Len(L)
        alpha == Div(w[jm], L[jm][jm])
        beta2 == Sqrt(Add(Sq(beta), Sq(alpha)))
        gamma == Div(alpha, Mul(beta2, beta))
        delta == Div(beta, beta2)
        Ld == [L EXCEPT ![jm][jm] =
                  Add(Mul(delta, L[jm][jm]), Mul(gamma, w[jm]))]
        wa == [w EXCEPT ![jm] = alpha]
        w1 == wa
        wb == Vec([i \in 1..Len(wa) |->
                  IF i > jm THEN Sub(wa[i], Mul(alpha, Ld[i][jm]))
                  ELSE wa[i]])
        Ls == Mat([i \in 1..N |-> [j \in 1..N |->
                  IF j = jm /\ i > jm
                  THEN Add(Mul(delta, Ld[i][jm]), Mul(gamma, w1[i]))
                  ELSE Ld[i][j]]])
    IN  IF jm = N THEN [L |-> Ld, w |-> wa, beta |-> beta2]
        ELSE [L |-> Ls, w |-> wb, beta |-> beta2]

RECURSIVE chol_update_loop(_, _)
chol_update_loop(r, jm) ==
    IF jm > Len(r.L) THEN r
    ELSE IF shape_status(Len(r.L), Len(r.w), jm, TRUE) # "ok"
    THEN Loop(shape_status(Len(r.L), Len(r.w), jm, TRUE),
              r.L, r.w, r.beta, 0, r.betas)
    ELSE chol_update_loop(
             Advance(r, chol_update_step(r.L, r.w, r.beta, jm)), jm + 1)

chol_update(Larg, warg) ==
    Returned(chol_update_loop(Loop("ok", Larg, warg, One, 0, <<>>), 1),
             Larg, warg)

\* chol_downdate_step with the column suffix taken from w before its update
chol_downdate_step_old_w(L, w, beta, jm) ==
    LET N == Len(L)
        alpha == Div(w[jm], L[jm][jm])
        beta2 == Sqrt(Sub(Sq(beta), Sq(alpha)))
        gamma == Div(alpha, Mul(beta2, beta))
        delta == Div(beta2, beta)
        Ld == [L EXCEPT ![jm][jm] = Mul(delta, L[jm][jm])]
        wa == [w EXCEPT ![jm] = alpha]
        wb == Vec([i \in 1..Len(wa) |->
                  IF i > jm THEN Sub(wa[i], Mul(alpha, Ld[i][jm]))
                  ELSE wa[i]])
        Ls == Mat([i \in 1..N |-> [j \in 1..N |->
                  IF j = jm /\ i > jm
                  THEN Sub(Mul(delta, Ld[i][jm]), Mul(gamma, wa[i]))
                  ELSE Ld[i][j]]])
    IN  IF jm = N THEN [L |-> Ld, w |-> wa, beta |-> beta2]
        ELSE [L |-> Ls, w |-> wb, beta |-> beta2]

\* chol_downdate_step with the update's delta = beta / beta2
chol_downdate_step_update_delta(L, w, beta, jm) ==
    LET N == Len(L)
        alpha == Div(w[jm], L[jm][jm])
        beta2 == Sqrt(Sub(Sq(beta), Sq(alpha)))
        gamma == Div(alpha, Mul(beta2, beta))
        delta == Div(beta, beta2)
        Ld == [L EXCEPT ![jm][jm] = Mul(delta, L[jm][jm])]
        wa == [w EXCEPT ![jm] = alpha]
        wb == Vec([i \in 1..Len(wa) |->
                  IF i > jm THEN Sub(wa[i], Mul(alpha, Ld[i][jm]))
                  ELSE wa[i]])
        Ls == Mat([i \in 1..N |-> [j \in 1..N |->
                  IF j = jm /\ i > jm
                  THEN Sub(Mul(delta, Ld[i][jm]), Mul(gamma, wb[i]))
                  ELSE Ld[i][j]]])
    IN  IF jm = N THEN [L |-> Ld, w |-> wa, beta |-> beta2]
        ELSE [L |-> Ls, w |-> wb, beta |-> beta2]

\* one pass of chol_downdate's loop, past its check, for j = jm - 1
chol_downdate_step(L, w, beta, jm) ==
    LET N == Len(L)
        alpha == Div(w[jm], L[jm][jm])
        beta2 == Sqrt(Sub(Sq(beta), Sq(alpha)))
        gamma == Div(alpha, Mul(beta2, beta))
        delta == Div(beta2, beta)
        Ld == [L EXCEPT ![jm][jm] = Mul(delta, L[jm][jm])]
        wa == [w EXCEPT ![jm] = alpha]
        wb == Vec([i \in 1..Len(wa) |->
                  IF i > jm THEN Sub(wa[i], Mul(alpha, Ld[i][jm]))
                  ELSE wa[i]])
        Ls == Mat([i \in 1..N |-> [j \in 1..N |->
                  IF j = jm /\ i > jm
                  THEN Sub(Mul(delta, Ld[i][jm]), Mul(gamma, wb[i]))
                  ELSE Ld[i][j]]])
    IN  IF jm = N THEN [L |-> Ld, w |-> wa, beta |-> beta2]
        ELSE [L |-> Ls, w |-> wb, beta |-> beta2]

\* the check with > in place of >=
downdate_raises_strict(L, w, beta, jm) ==
    LET a2 == Sq(Div(w[jm], L[jm][jm]))
    IN  Geq(a2, Sq(beta)) /\ a2 # Sq(beta)

\* the check at the top of the loop body: alpha**2 >= beta**2
downdate_raises(L, w, beta, jm) ==
    Geq(Sq(Div(w[jm], L[jm][jm])), Sq(beta))

RECURSIVE chol_downdate_loop(_, _)
chol_downdate_loop(r, jm) ==
    IF jm > Len(r.L) THEN r
    ELSE IF jm > Len(r.w)
    THEN Loop("IndexError", r.L, r.w, r.beta, 0, r.betas)
    ELSE IF downdate_raises(r.L, r.w, r.beta, jm)
    THEN Loop("NotPositiveDefinite", r.L, r.w, r.beta, jm, r.betas)
    ELSE IF shape_status(Len(r.L), Len(r.w), jm, TRUE) # "ok"
    THEN Loop(shape_status(Len(r.L), Len(r.w), jm, TRUE),
              r.L, r.w, r.beta, 0, r.betas)
    ELSE chol_downdate_loop(
             Advance(r, chol_downdate_step(r.L, r.w, r.beta, jm)), jm + 1)

chol_downdate(Larg, warg) ==
    Returned(chol_downdate_loop(Loop("ok", Larg, warg, One, 0, <<>>), 1),
             Larg, warg)

\* one pass of chol_updown's loop, for the source's k = km - 1
chol_updown_step(L, w, beta, update, km) ==
    LET N == Len(L)
        sigma == IF update THEN One ELSE Neg(One)
        alpha == Div(w[km], L[km][km])
        beta2 == Sqrt(Add(Sq(beta), Mul(sigma, Sq(alpha))))
        gamma == Div(Mul(sigma, alpha), Mul(beta2, beta))
        delta == IF update THEN Div(beta, beta2) ELSE Div(beta2, beta)
        Ld == [L EXCEPT ![km][km] =
                  IF update
                  THEN Add(Mul(delta, L[km][km]), Mul(gamma, w[km]))
                  ELSE Mul(delta, L[km][km])]
        w1 == w
        wb == Vec([i \in 1..Len(w) |->
                  IF i > km THEN Sub(w[i], Mul(alpha, Ld[i][km]))
                  ELSE w[i]])
        Ls == Mat([i \in 1..N |-> [j \in 1..N |->
                  IF j = km /\ i > km
                  THEN Add(Mul(delta, Ld[i][km]),
                           Mul(gamma, IF update THEN w1[i] ELSE wb[i]))
                  ELSE Ld[i][j]]])
    IN  [L |-> Ls, w |-> [wb EXCEPT ![km] = alpha], beta |-> beta2]

RECURSIVE chol_updown_loop(_, _, _)
chol_updown_loop(r, update, km) ==
    IF km > Len(r.L) THEN r
    ELSE IF shape_status(Len(r.L), Len(r.w), km, FALSE) # "ok"
    THEN Loop(shape_status(Len(r.L), Len(r.w), km, FALSE),
              r.L, r.w, r.beta, 0, r.betas)
    ELSE chol_updown_loop(
             Advance(r, chol_updown_step(r.L, r.w, r.beta, update, km)),
             update, km + 1)

\* the N == 1 branch: L = np.sqrt(L*L.T + sigma * w*w.T), w as passed; the
\* elementwise products stretch the (1, 1) array L*L.T along w, so that the
\* L returned has one row and len(w) columns
chol_updown_scalar(L, w, update) ==
    LET sigma == IF update THEN One ELSE Neg(One)
    IN  Loop("ok",
             <<Vec([i \in 1..Len(w) |->
                   Sqrt(Add(Sq(L[1][1]), Mul(sigma, Sq(w[i]))))])>>,
             w, One, 0, <<>>)

chol_updown(Larg, warg, update) ==
    Returned(IF Len(Larg) = 1 THEN chol_updown_scalar(Larg, warg, update)
             ELSE chol_updown_loop(Loop("ok", Larg, warg, One, 0, <<>>),
                                   update, 1),
             Larg, warg)

(***************************************************************************)
(* The caller.  It holds a matrix A and calls a factorization on it        *)
(* (specification SpecFact), or holds A and a lower factor L of it and     *)
(* either factors A or calls the update/downdate routines on L, passing on *)
(* the factor a successful call returned (specification Spec), as the      *)
(* script's __main__ does.                                                 *)
(***************************************************************************)
VARIABLES A, L, w, ret, arg, prev, calls

vars == <<A, L, w, ret, arg, prev, calls>>

Dims == 1..MaxN

\* the positions below the diagonal of an n x n matrix
Below(n) == {ij \in (1..n) \X (1..n) : ij[1] > ij[2]}

\* the symmetric n x n matrix with diagonal db, db+1, ... (the script sets
\* the diagonal with np.arange) and off[<<i, j>>], i > j, off the diagonal
SymMatrix(n, db, off) ==
    Mat([i \in 1..n |-> [j \in 1..n |->
        Int2Num(IF i = j THEN db + i - 1
                ELSE IF i > j THEN off[<<i, j>>] ELSE off[<<j, i>>])]])

Matrices ==
    UNION {{SymMatrix(n, db, off) :
               off \in [Below(n) -> OffVals], db \in DiagBases}
           : n \in Dims}

\* the lower-triangular n x n factors with diagonal db, db+1, ..., c1 just
\* below the diagonal and c2 further below
SeedFactors ==
    UNION {{Mat([i \in 1..n |-> [j \in 1..n |->
                Int2Num(IF i = j THEN db + i - 1
                        ELSE IF i = j + 1 THEN c1
                        ELSE IF i > j THEN c2 ELSE 0)]]) :
               c1 \in OffVals, c2 \in OffVals, db \in FactorDiagBases}
           : n \in Dims}

WVecs(n) == {Vec([i \in 1..n |-> Int2Num(v[i])]) : v \in [1..n -> WVals]}

\* the supernode structures of an n x n matrix: the sequences of positive
\* block sizes that sum to n
Compositions(n) ==
    {Vec(s) : s \in {t \in UNION {[1..k -> 1..n] : k \in 1..n} :
                        SumTo(t, Len(t)) = n}}

\* sequences of one or two sizes that are not a supernode structure of an
\* n x n matrix: a size that is not positive, or a sum other than n
InvalidPartitions(n) ==
    {Vec(s) : s \in {t \in UNION {[1..k -> (-1)..(n + 1)] : k \in 1..2} :
                        \/ SumTo(t, Len(t)) # n
                        \/ \E j \in 1..Len(t) : t[j] <= 0}}

\* the arguments s the caller passes
Partitions(n) == Compositions(n) \cup InvalidPartitions(n)

NoCall ==
    [fn |-> "none", lower |-> FALSE, s |-> <<>>, update |-> FALSE,
     status |-> "none", L |-> <<>>, w |-> <<>>, col |-> 0, betas |-> <<>>]

NoArg == [L |-> <<>>, w |-> <<>>]

NoPrev == [arg |-> NoArg, ret |-> NoCall]

Factorizations ==
    {"chol_up", "chol_left", "chol_left_amp", "chol_right", "chol_super"}

\* the record of a factorization call that returned r
FactCall(fn, lower, s, r) ==
    [fn |-> fn, lower |-> lower, s |-> s, update |-> FALSE,
     status |-> r.status, L |-> r.L, w |-> <<>>, col |-> 0, betas |-> <<>>]

\* the record of an update/downdate call that returned r
UpCall(fn, update, r) ==
    [fn |-> fn, lower |-> TRUE, s |-> <<>>, update |-> update,
     status |-> r.status, L |-> r.L, w |-> r.w, col |-> r.col,
     betas |-> r.betas]

InitFact ==
    /\ A \in Matrices
    /\ L = <<>>
    /\ w = <<>>
    /\ ret = NoCall
    /\ arg = NoArg
    /\ prev = NoPrev
    /\ calls = 0

\* one factorization call on the caller's matrix
Factorize(fn, lower, s, r) ==
    /\ ret = NoCall
    /\ ret' = FactCall(fn, lower, s, r)
    /\ A' = r.argA
    /\ UNCHANGED <<L, w, arg, prev, calls>>

CallCholUp == \E lower \in BOOLEAN :
    Factorize("chol_up", lower, <<>>, chol_up(A, lower))

CallCholLeft == \E lower \in BOOLEAN :
    Factorize("chol_left", lower, <<>>, chol_left(A, lower))

CallCholLeftAmp == \E lower \in BOOLEAN :
    Factorize("chol_left_amp", lower, <<>>, chol_left_amp(A, lower))

CallCholRight == \E lower \in BOOLEAN :
    Factorize("chol_right", lower, <<>>, chol_right(A, lower))

CallCholSuper ==
    /\ ret = NoCall
    /\ \E lower \in BOOLEAN : \E s \in Partitions(Len(A)) :
           Factorize("chol_super", lower, s, chol_super(A, s, lower))

NextFact ==
    \/ CallCholUp
    \/ CallCholLeft
    \/ CallCholLeftAmp
    \/ CallCholRight
    \/ CallCholSuper

SpecFact == InitFact /\ [][NextFact]_vars

\* the caller holds a lower factor L with positive diagonal, of A = L @ L.T
Init ==
    /\ L \in SeedFactors
    /\ A = MMT(L)
    /\ w = <<>>
    /\ ret = NoCall
    /\ arg = NoArg
    /\ prev = NoPrev
    /\ calls = 0

\* the factor the caller passes next: the one the last call returned, or the
\* one it still holds when there is none
Current == IF ret.status = "ok" THEN ret.L ELSE L

\* vectors one entry shorter or longer than n
MisVecs(n) ==
    {Vec([i \in 1..m |-> Int2Num(v)]) : m \in {n - 1, n + 1}, v \in {-1, 1}}

\* the vectors the caller passes: any on the first call, of the length of L
\* or not, then the same again (as the script downdates with the w it
\* updated with)
Vectors ==
    IF calls = 0 THEN WVecs(Len(L)) \cup MisVecs(Len(L)) ELSE {arg.w}

\* one update/downdate call on the current factor; after the first call the
\* caller alternates between adding and removing w @ w.T, and it goes on
\* only after a call whose w had the size of L; a run that factors A makes
\* no update
Modify(fn, update, wv, r) ==
    /\ calls < MaxCalls
    /\ ret.fn \notin Factorizations
    /\ calls = 0 \/ update # ret.update
    /\ calls = 0 \/ Len(arg.w) = Len(arg.L)
    /\ ret' = UpCall(fn, update, r)
    /\ L' = r.argL
    /\ w' = r.argw
    /\ arg' = [L |-> Current, w |-> wv]
    /\ prev' = [arg |-> arg, ret |-> ret]
    /\ calls' = calls + 1
    /\ UNCHANGED A

CallUpdate == \E wv \in Vectors :
    Modify("chol_update", TRUE, wv, chol_update(Current, wv))

CallDowndate == \E wv \in Vectors :
    Modify("chol_downdate", FALSE, wv, chol_downdate(Current, wv))

CallUpdown == \E wv \in Vectors : \E update \in BOOLEAN :
    Modify("chol_updown", update, wv, chol_updown(Current, wv, update))

\* the caller, holding A and its factor L, factors A once or makes update
\* and downdate calls on L
Next ==
    \/ CallUpdate
    \/ CallDowndate
    \/ CallUpdown
    \/ CallCholUp
    \/ CallCholLeft
    \/ CallCholLeftAmp
    \/ CallCholRight
    \/ CallCholSuper

Spec == Init /\ [][Next]_vars

(***************************************************************************)
(* Properties.                                                             *)
(***************************************************************************)
\* determinant, by expansion along the first row
RECURSIVE Det(_)
RECURSIVE DetSum(_, _)
Minor1(M, j) ==
    [i \in 1..(Len(M) - 1) |->
        [c \in 1..(Len(M) - 1) |-> M[i + 1][IF c < j THEN c ELSE c + 1]]]

DetSum(M, j) ==
    IF j = 0 THEN Zero
    ELSE LET t == Mul(M[1][j], Det(Minor1(M, j)))
         IN  Add(DetSum(M, j - 1), IF j % 2 = 1 THEN t ELSE Neg(t))

Det(M) == IF Len(M) = 1 THEN M[1][1] ELSE DetSum(M, Len(M))

IsSymmetric(M) ==
    \A i \in 1..Len(M) : \A j \in 1..Len(M) : M[i][j] = M[j][i]

\* symmetric positive definite: every leading principal minor is positive
IsSPD(M) ==
    /\ IsSymmetric(M)
    /\ \A k \in 1..Len(M) :
          Sign(Det([i \in 1..k |-> SubSeq(M[i], 1, k)])) > 0

IsLower(M) ==
    \A i \in 1..Len(M) : \A j \in 1..Len(M) : j > i => M[i][j] = Zero

IsUpper(M) == IsLower(Transpose(M))

\* a lower-triangular matrix of finite reals with positive diagonal
ValidFactor(M) ==
    /\ Len(M) > 0
    /\ \A i \in 1..Len(M) : Len(M[i]) = Len(M)
    /\ AllFinite(M)
    /\ IsLower(M)
    /\ \A i \in 1..Len(M) : Sign(M[i][i]) > 0

\* M @ x
MatVec(M, x) == Vec([i \in 1..Len(M) |-> Dot(M[i], x)])

AllOnes(s) == \A j \in 1..Len(s) : s[j] = 1

\* the last call is one of the five variants, chol_super on the all-ones
\* partition
VariantCall ==
    \/ ret.fn \in {"chol_up", "chol_left", "chol_left_amp", "chol_right"}
    \/ ret.fn = "chol_super" /\ AllOnes(ret.s) /\ Len(ret.s) = Len(A)

\* what the variant fn returns on the caller's matrix
Variant(fn, s, lower) ==
    CASE fn = "chol_up" -> chol_up(A, lower)
      [] fn = "chol_left" -> chol_left(A, lower)
      [] fn = "chol_left_amp" -> chol_left_amp(A, lower)
      [] fn = "chol_right" -> chol_right(A, lower)
      [] fn = "chol_super" -> chol_super(A, s, lower)

\* C1: on a symmetric positive-definite A each of the five variants
\* (chol_super on the all-ones partition) returns, with lower=True, a
\* lower-triangular L with L @ L.T = A and, with lower=False, the transpose
\* of that L.
C1_FactorReproducesA ==
    (VariantCall /\ IsSPD(A)) =>
        /\ ret.status = "ok"
        /\ ret.lower => (IsLower(ret.L) /\ MMT(ret.L) = A)
        /\ ~ret.lower =>
              /\ IsUpper(ret.L)
              /\ MMT(Transpose(ret.L)) = A
              /\ ret.L = Transpose(Variant(ret.fn, ret.s, TRUE).L)

C1_Witness ==
    /\ IsSPD(A)
    /\ Len(A) = 3
    /\ ret.fn = "chol_up"
    /\ ~ret.lower
    /\ ret.status = "ok"
    /\ ret.L[1][2] # Zero
    /\ ret.L[2][3] # Zero

\* C9: on a symmetric positive-definite A and any partition s of positive
\* sizes summing to N, chol_super(A, s, lower=True) succeeds and returns L
\* with L @ L.T = A.
C9_SuperAnyPartition ==
    (/\ IsSPD(A)
     /\ ret.fn = "chol_super"
     /\ ret.lower
     /\ SumTo(ret.s, Len(ret.s)) = Len(A)
     /\ \A j \in 1..Len(ret.s) : ret.s[j] > 0) =>
        /\ ret.status = "ok"
        /\ MMT(ret.L) = A

\* row km of L as chol_left_amp's pass km finds it
AmpRow(km) ==
    chol_left_amp_loop(A, Zeros(Len(A), Len(A)),
                       Vec([i \in 1..Len(A) |-> Zero]), 1, km - 1)[km]

\* C10: on a symmetric positive-definite A, chol_up, chol_left_amp,
\* chol_right and chol_super on the all-ones partition return the factor
\* chol_left returns, and the columns chol_left_amp accumulates over at
\* pass k all lie left of column k.
C10_VariantsAgree ==
    (VariantCall /\ IsSPD(A)) =>
        /\ ret.status = "ok"
        /\ ret.L = chol_left(A, ret.lower).L
        /\ ret.fn = "chol_left_amp" =>
              \A km \in 1..Len(A) : \A j \in argwhere(AmpRow(km)) : j < km

C10_Witness ==
    /\ IsSPD(A)
    /\ Len(A) = 3
    /\ ret.fn = "chol_left_amp"
    /\ ret.lower
    /\ ret.status = "ok"
    /\ ret.L[3][1] = Zero
    /\ ret.L[3][2] # Zero
    /\ ret.L[2][1] # Zero

\* the w passed has as many entries as the L passed has rows
Conformable == Len(arg.w) = Len(arg.L)

\* the entries of a vector are all nonzero
NoZero(v) == \A i \in 1..Len(v) : v[i] # Zero

\* C2: chol_update on a lower-triangular L with positive diagonal and a
\* vector w of L's size returns a factor L' with L' @ L'.T = L @ L.T + w @ w.T.
C2_UpdateAddsOuter ==
    (ret.fn = "chol_update" /\ ValidFactor(arg.L) /\ Conformable) =>
        /\ ret.status = "ok"
        /\ ValidFactor(ret.L)
        /\ MMT(ret.L) = MatAdd(MMT(arg.L), Outer(arg.w))

C2_Witness ==
    /\ ret.fn = "chol_update"
    /\ ret.status = "ok"
    /\ Len(arg.L) = 3
    /\ NoZero(arg.w)
    /\ arg.L[2][1] # Zero
    /\ arg.L[3][1] # Zero
    /\ arg.L[3][2] # Zero

\* C3: a chol_downdate call, with w of L's size, in which every column
\* passes the check alpha**2 < beta**2 returns L' with L' @ L'.T = L @ L.T - w @ w.T.
C3_DowndateRemovesOuter ==
    (/\ ret.fn = "chol_downdate"
     /\ ValidFactor(arg.L)
     /\ Conformable
     /\ ret.col = 0) =>
        /\ ret.status = "ok"
        /\ ValidFactor(ret.L)
        /\ MMT(ret.L) = MatSub(MMT(arg.L), Outer(arg.w))

C3_Witness ==
    /\ ret.fn = "chol_downdate"
    /\ ret.status = "ok"
    /\ calls = 1
    /\ Len(arg.L) = 3
    /\ NoZero(arg.w)
    /\ arg.L[2][1] # Zero
    /\ arg.L[3][1] # Zero
    /\ arg.L[3][2] # Zero

\* C4: the vector chol_update returns, and the one a successful
\* chol_downdate returns, is the solution x of L @ x = w for the L and w
\* (of L's size) passed in.
C4_ReturnedVectorSolves ==
    (/\ ret.fn \in {"chol_update", "chol_downdate"}
     /\ ValidFactor(arg.L)
     /\ Conformable
     /\ ret.status = "ok") =>
        /\ Len(ret.w) = Len(arg.L)
        /\ MatVec(arg.L, ret.w) = arg.w

C4_Witness ==
    /\ ret.fn = "chol_update"
    /\ ret.status = "ok"
    /\ Len(arg.L) = 3
    /\ NoZero(arg.w)
    /\ arg.L[2][1] # Zero
    /\ arg.L[3][2] # Zero
    /\ ret.w # arg.w

\* the last two calls passed the same w, the second on the factor the first
\* returned
RoundTrip(first, second) ==
    /\ calls >= 2
    /\ prev.ret.fn = first
    /\ prev.ret.status = "ok"
    /\ ret.fn = second
    /\ ValidFactor(prev.arg.L)
    /\ Conformable
    /\ arg.L = prev.ret.L
    /\ arg.w = prev.arg.w

\* C5: chol_downdate on the factor chol_update returned, with the same w,
\* does not raise and returns the original L; chol_update on the factor a
\* successful chol_downdate returned, with the same w, returns the original
\* L (w of L's size).
C5_RoundTrip ==
    /\ RoundTrip("chol_update", "chol_downdate") =>
          (ret.status = "ok" /\ ret.L = prev.arg.L)
    /\ RoundTrip("chol_downdate", "chol_update") =>
          (ret.status = "ok" /\ ret.L = prev.arg.L)

C5_Witness ==
    /\ RoundTrip("chol_update", "chol_downdate")
    /\ Len(arg.L) = 3
    /\ NoZero(arg.w)
    /\ prev.arg.L[2][1] # Zero
    /\ prev.arg.L[3][2] # Zero
    /\ ret.L = prev.arg.L

\* the sum of the squares of the first n entries of x
RECURSIVE SumSq(_, _)
SumSq(x, n) == IF n = 0 THEN Zero ELSE Add(SumSq(x, n - 1), Sq(x[n]))

\* the first column j at which alpha**2 >= beta**2 when downdating M by v,
\* 0 if there is none: alpha at column j is the j-th entry of the solution
\* x of M @ x = v and the running beta**2 is 1 - x[1]**2 - ... - x[j-1]**2
FirstBadColumn(M, v) ==
    LET x == ForwardSub(M, v, Len(M))
        bad == {j \in 1..Len(M) :
                   Geq(Sq(x[j]), Sub(One, SumSq(x, j - 1)))}
    IN  IF bad = {} THEN 0
        ELSE CHOOSE j \in bad : \A i \in bad : j <= i

\* C6: chol_downdate, with w of L's size, raises NotPositiveDefinite at the
\* first column at
\* which alpha**2 >= beta**2 and only there, returns no factor then, and
\* leaves the caller's L and w as they were.
C6_DowndateRaisesAtFirstBad ==
    (ret.fn = "chol_downdate" /\ ValidFactor(arg.L) /\ Conformable) =>
        LET j == FirstBadColumn(arg.L, arg.w)
        IN  /\ j = 0 => ret.status = "ok"
            /\ j > 0 =>
                  /\ ret.status = "NotPositiveDefinite"
                  /\ ret.col = j
                  /\ ret.L = <<>>
                  /\ ret.w = <<>>
            /\ L = arg.L
            /\ w = arg.w

C6_Witness ==
    /\ ret.fn = "chol_downdate"
    /\ ret.status = "NotPositiveDefinite"
    /\ ret.col = 3
    /\ arg.w[1] # Zero
    /\ arg.w[2] # Zero
    /\ arg.L[2][1] # Zero
    /\ L = arg.L
    /\ w = arg.w

\* C7: chol_updown returns the pair chol_update returns (update=True) and
\* the pair a successful chol_downdate returns (update=False), for N = 1 too.
C7_UpdownMatchesDedicated ==
    (ret.fn = "chol_updown" /\ ValidFactor(arg.L)) =>
        LET d == IF ret.update THEN chol_update(arg.L, arg.w)
                 ELSE chol_downdate(arg.L, arg.w)
        IN  d.status = "ok" =>
               (ret.status = "ok" /\ ret.L = d.L /\ ret.w = d.w)

\* C8: chol_updown with update=False raises NotPositiveDefinite and returns
\* no factor on every input on which chol_downdate raises.
C8_UpdownRaisesLikeDowndate ==
    (/\ ret.fn = "chol_updown"
     /\ ~ret.update
     /\ ValidFactor(arg.L)
     /\ chol_downdate(arg.L, arg.w).status = "NotPositiveDefinite") =>
        /\ ret.status = "NotPositiveDefinite"
        /\ ret.L = <<>>


\* the docstring's condition on s: all(s > 0) and sum(s) == N
ValidPartition(s, n) ==
    /\ \A j \in 1..Len(s) : s[j] > 0
    /\ SumTo(s, Len(s)) = n

\* C11: chol_super raises its partition error (the failed assertion), and
\* returns no factor, exactly when some entry of s is not positive or the
\* entries of s do not sum to N; no error of the factorization proper comes
\* before it.
C11_InvalidPartitionRejected ==
    ret.fn = "chol_super" =>
        /\ (ret.status = "AssertionError") = ~ValidPartition(ret.s, Len(A))
        /\ ret.status = "AssertionError" => ret.L = <<>>

C11_Witness ==
    /\ ret.fn = "chol_super"
    /\ Len(A) = 3
    /\ ret.s = <<2, 2>>
    /\ ret.status = "AssertionError"
    /\ ret.L = <<>>

\* the determinant of the leading k x k block of M
LeadingMinor(M, k) == Det([i \in 1..k |-> SubSeq(M[i], 1, k)])

\* the radicand of the diagonal entry at step k is the ratio of the leading
\* minors k and k - 1: it is negative at the first k whose minor is negative
\* after positive ones
NegativeRadicandAt(M, k) ==
    /\ \A l \in 1..(k - 1) : Sign(LeadingMinor(M, l)) > 0
    /\ Sign(LeadingMinor(M, k)) < 0

HasNaN(M) ==
    \E i \in 1..Len(M) : \E j \in 1..Len(M[i]) : M[i][j] = NaN

NonSuper == {"chol_up", "chol_left", "chol_left_amp", "chol_right"}

\* C12: when the radicand of a diagonal entry is negative at some step,
\* chol_up, chol_left, chol_left_amp and chol_right raise
\* NotPositiveDefinite and return no factor; a factor they return holds no
\* NaN.
C12_NegativeRadicandRaises ==
    (ret.fn \in NonSuper /\ IsSymmetric(A)) =>
        /\ (\E k \in 1..Len(A) : NegativeRadicandAt(A, k)) =>
              (ret.status = "NotPositiveDefinite" /\ ret.L = <<>>)
        /\ ret.status = "ok" => ~HasNaN(ret.L)

Modifiers == {"chol_update", "chol_downdate", "chol_updown"}

\* the exceptions a call can end with (the ValueError of the downdate check
\* among them)
Failures == {"ValueError", "IndexError", "NotPositiveDefinite"}

\* C13: chol_update, chol_downdate and chol_updown called with a w whose
\* length is not the size of L, for a 1 x 1 L too, end with an exception
\* and return nothing.
C13_MismatchedWRaises ==
    (ret.fn \in Modifiers /\ ValidFactor(arg.L) /\ ~Conformable) =>
        /\ ret.status \in Failures
        /\ ret.L = <<>>
        /\ ret.w = <<>>

\* C14: no call changes the arrays passed to it: a factorization leaves the
\* caller's A as it was, and chol_update, chol_downdate and chol_updown
\* leave the L and the w passed as they were, whether they return or raise.
C14_ArgumentsUnchanged ==
    [][/\ A' = A
       /\ ret'.fn \in Modifiers => (L' = arg'.L /\ w' = arg'.w)]_vars

C14_Witness ==
    /\ ret.fn = "chol_right"
    /\ ret.status = "ok"
    /\ ret.lower
    /\ Len(A) = 3
    /\ ret.L[2][1] # Zero
    /\ ret.L[3][2] # Zero
    /\ A = MMT(ret.L)

\* the running beta after each column: positive, its square (a rational) at
\* least 1 and never falling in an update, at most 1 and never rising in a
\* downdate
BetasMonotone(betas, update) ==
    \A i \in 1..Len(betas) :
        LET before == IF i = 1 THEN One ELSE Sq(betas[i - 1])
        IN  /\ Sign(betas[i]) > 0
            /\ IF update THEN Geq(Sq(betas[i]), before)
               ELSE Geq(before, Sq(betas[i]))

\* C15: every chol_update, chol_downdate or chol_updown call that returns,
\* made on a lower-triangular factor with positive diagonal, returns a
\* lower-triangular factor with positive diagonal, so that the factor stays
\* one along any chain of calls; the running beta of the call is at least 1
\* and non-decreasing in an update, in (0, 1] and non-increasing in a
\* downdate.
C15_FactorStaysValid ==
    (/\ ret.fn \in Modifiers
     /\ ret.status = "ok"
     /\ ValidFactor(arg.L)
     /\ Conformable) =>
        /\ ValidFactor(ret.L)
        /\ BetasMonotone(ret.betas, ret.update)

==============================================================================
